---------------------------- MODULE Spec2Model ----------------------------
(***************************************************************************)
(* Model of upup/pkg/fi/cloudup/openstacktasks/lb.go: the OpenStack load   *)
(* balancer task (LB) of kops.                                             *)
(*                                                                         *)
(*   - Find / NewLBTaskFromCloud : discovery of the remote load balancer   *)
(*   - CheckChanges              : validation of the requested change      *)
(*   - RenderOpenstack           : creation path and port repair path      *)
(*   - waitLoadbalancerActiveProvisioningStatus : the status poller        *)
(*                                                                         *)
(* A Go pointer (to a string, an LB, a SecurityGroup) is a sequence of     *)
(* length at most one: <<>> is nil, <<v>> points to v.                     *)
(***************************************************************************)
EXTENDS Integers, Sequences, FiniteSets, TLC

VARIABLES
    \* ---- the remote system (OpenStack) ----
    lbs,                \* load balancers, in creation order
    ports,              \* port id -> the port's security-group id list
    subnets,            \* subnets, as listed
    secgroups,          \* security groups, as listed
    \* ---- one reconciliation unit ----
    e,                  \* the desired descriptor (the task itself)
    a,                  \* the actual descriptor Find returned (nil if absent)
    changes,            \* the delta handed to CheckChanges and Render
    pc,                 \* position of the pass: find, check, render, done
    last,               \* what the most recent operation did and returned
    prev,               \* outcome of the previous Render, "none" after drift
    \* ---- the poller ----
    script,             \* what the remote answers: first terminal answer
    pollPc,             \* idle, fetch, sleep, done
    steps,              \* backoff.Steps
    duration,           \* backoff.Duration, in milliseconds
    fetches,            \* status fetches issued
    sleeps,             \* sleeps taken
    slept,              \* total time slept, in milliseconds
    provisioningStatus, \* last status fetched
    pollErr             \* the error the poller returned

cloudVars == <<lbs, ports, subnets, secgroups>>
taskVars  == <<e, a, changes, pc, last, prev>>
pollVars  == <<script, pollPc, steps, duration, fetches, sleeps, slept,
               provisioningStatus, pollErr>>
vars      == <<lbs, ports, subnets, secgroups, e, a, changes, pc, last, prev,
               script, pollPc, steps, duration, fetches, sleeps, slept,
               provisioningStatus, pollErr>>

---------------------------------------------------------------------------
(* Pointers: fi.PtrTo, fi.ValueOf.                                         *)

Nil == <<>>

PtrTo(v) == <<v>>

\* fi.ValueOf of a string pointer: the zero value "" for nil.
ValueOf(p) == IF p = Nil THEN "" ELSE p[1]

\* No error.
NoErr == ""

---------------------------------------------------------------------------
(* The poller: waitLoadbalancerActiveProvisioningStatus.                   *)

loadbalancerActiveInitDelay == 1000

loadbalancerActiveFactorNum == 12

loadbalancerActiveFactorDen == 10

loadbalancerActiveSteps == 22

activeStatus == "ACTIVE"

errorStatus == "ERROR"

\* Statuses a load balancer reports while it is neither ACTIVE nor ERROR.
InProgressStatuses == {"PENDING_CREATE", "PENDING_UPDATE"}

\* wait.ErrWaitTimeout, as wait.ExponentialBackoff returns it.
ErrWaitTimeout == "timed out waiting for the condition"

ErrTimeout == "loadbalancer failed to go into ACTIVE provisioning status within allotted time"

ErrErrorState == "loadbalancer has gone into ERROR state"

\* The error of a loadbalancers.Get that failed.
ErrTransport == "loadbalancers.Get failed"

\* The longest prefix of in-progress answers a script may hold: beyond the
\* step budget, so that the budget is what ends the wait.
MaxScript == 24

\* A script: answers 1..k-1 are in progress, answer k is `kind`.
Scripts == [k : 1..MaxScript, kind : {activeStatus, errorStatus, "fail"}]

\* What the remote may answer to the i-th fetch under script s.
Responses(s, i) ==
    IF i < s.k
    THEN {[ok |-> TRUE, status |-> st] : st \in InProgressStatuses}
    ELSE IF i = s.k
    THEN {IF s.kind = "fail"
          THEN [ok |-> FALSE, status |-> ""]
          ELSE [ok |-> TRUE, status |-> s.kind]}
    ELSE {[ok |-> TRUE, status |-> st] :
              st \in InProgressStatuses \cup {activeStatus, errorStatus}}
         \cup {[ok |-> FALSE, status |-> ""]}

\* Mutant: ACTIVE is not recognised as the end of the wait.
PollCondition_ActiveNotDone(resp, status) ==
    IF ~resp.ok
    THEN [done |-> FALSE, err |-> ErrTransport, status |-> status]
    ELSE IF resp.status = errorStatus
    THEN [done |-> TRUE, err |-> ErrErrorState, status |-> resp.status]
    ELSE [done |-> FALSE, err |-> NoErr, status |-> resp.status]

\* Mutant: ERROR is waited on like any other status.
PollCondition_ErrorRetried(resp, status) ==
    IF ~resp.ok
    THEN [done |-> FALSE, err |-> ErrTransport, status |-> status]
    ELSE IF resp.status = activeStatus
    THEN [done |-> TRUE, err |-> NoErr, status |-> resp.status]
    ELSE [done |-> FALSE, err |-> NoErr, status |-> resp.status]

\* Mutant: a failed fetch is retried.
PollCondition_TransportRetried(resp, status) ==
    IF ~resp.ok
    THEN [done |-> FALSE, err |-> NoErr, status |-> status]
    ELSE IF resp.status = activeStatus
    THEN [done |-> TRUE, err |-> NoErr, status |-> resp.status]
    ELSE IF resp.status = errorStatus
    THEN [done |-> TRUE, err |-> ErrErrorState, status |-> resp.status]
    ELSE [done |-> FALSE, err |-> NoErr, status |-> resp.status]

\* The condition function handed to wait.ExponentialBackoff: one fetch.
\* Returns (done, err) and the value it leaves in provisioningStatus.
PollCondition(resp, status) ==
    IF ~resp.ok
    THEN [done |-> FALSE, err |-> ErrTransport, status |-> status]
    ELSE IF resp.status = activeStatus
    THEN [done |-> TRUE, err |-> NoErr, status |-> resp.status]
    ELSE IF resp.status = errorStatus
    THEN [done |-> TRUE, err |-> ErrErrorState, status |-> resp.status]
    ELSE [done |-> FALSE, err |-> NoErr, status |-> resp.status]

\* The translation of the backoff's error after the loop.
WaitErr(err) == IF err = ErrWaitTimeout THEN ErrTimeout ELSE err

\* Mutant: the loop gives up one step early.
LastStep_Early(n) == n <= 2

\* wait.ExponentialBackoff stops after the condition ran with one step left.
LastStep(n) == n = 1

\* Backoff.Step: the next Duration.
NextDuration(d) ==
    (d * loadbalancerActiveFactorNum) \div loadbalancerActiveFactorDen

PollInit ==
    /\ script \in Scripts
    /\ pollPc = "fetch"
    /\ steps = loadbalancerActiveSteps
    /\ duration = loadbalancerActiveInitDelay
    /\ fetches = 0
    /\ sleeps = 0
    /\ slept = 0
    /\ provisioningStatus = ""
    /\ pollErr = NoErr

\* One iteration of the loop of wait.ExponentialBackoff: run the condition,
\* return on an error or on done, break to the timeout on the last step.
PollFetch ==
    /\ pollPc = "fetch"
    /\ steps > 0
    /\ \E resp \in Responses(script, fetches + 1) :
          LET r == PollCondition(resp, provisioningStatus) IN
          /\ fetches' = fetches + 1
          /\ provisioningStatus' = r.status
          /\ \/ /\ r.err # NoErr \/ r.done
                /\ pollPc' = "done"
                /\ pollErr' = WaitErr(r.err)
             \/ /\ r.err = NoErr /\ ~r.done
                /\ LastStep(steps)
                /\ pollPc' = "done"
                /\ pollErr' = WaitErr(ErrWaitTimeout)
             \/ /\ r.err = NoErr /\ ~r.done
                /\ ~LastStep(steps)
                /\ pollPc' = "sleep"
                /\ pollErr' = pollErr
    /\ UNCHANGED <<script, steps, duration, sleeps, slept>>
    /\ UNCHANGED <<cloudVars, taskVars>>

\* time.Sleep(backoff.Step()), and the loop's test of backoff.Steps: out of
\* steps, the wait ends with the timeout.
PollSleep ==
    /\ pollPc = "sleep"
    /\ steps' = steps - 1
    /\ slept' = slept + duration
    /\ sleeps' = sleeps + 1
    /\ duration' = NextDuration(duration)
    /\ pollPc' = IF steps - 1 > 0 THEN "fetch" ELSE "done"
    /\ pollErr' = IF steps - 1 > 0 THEN pollErr ELSE WaitErr(ErrWaitTimeout)
    /\ UNCHANGED <<script, fetches, provisioningStatus>>
    /\ UNCHANGED <<cloudVars, taskVars>>

PollNext == PollFetch \/ PollSleep

---------------------------------------------------------------------------
(* The remote system, as the task sees it through openstack.OpenstackCloud *)
(* and the gophercloud clients.                                            *)

\* The most load balancers the remote holds: beyond it CreateLB is refused.
MaxLBs == 3

LBId(i) == "lb-" \o ToString(i)

PortId(i) == "port-" \o ToString(i)

\* A loadbalancers.LoadBalancer.
LoadBalancer(i, name, subnetID, flavorID) ==
    [ID |-> LBId(i), Name |-> name, VipPortID |-> PortId(i),
     VipSubnetID |-> subnetID, Provider |-> "amphora", FlavorID |-> flavorID]

\* A name filter of a ListOpts: the empty name filters nothing.
ByName(seq, name) ==
    IF name = "" THEN seq ELSE SelectSeq(seq, LAMBDA r : r.Name = name)

\* subnets.Get by id: the subnets with that id (none: the Get fails).
SubnetsWithID(c, id) == SelectSeq(c.subnets, LAMBDA r : r.ID = id)

\* The security-group lists a freshly created virtual-IP port may carry:
\* none, or the provider's default group; never a group of the cluster.
NewPortLists == {<<>>, <<"sg-default">>}

\* The security-group lists another actor may leave on a port.
DriftLists ==
    {<<>>, <<"sg-1">>, <<"sg-default">>, <<"sg-1", "sg-default">>,
     <<"sg-default", "sg-1">>}

\* ports.Update with UpdateOpts{SecurityGroups: &sgs}: the list is replaced.
UpdatePort(prts, id, sgs) == [prts EXCEPT ![id] = sgs]

\* Cloud.CreateLB: the record the remote assigns, and its new port.
CreateLB(c, opts, portSGs) ==
    LET lb == LoadBalancer(Len(c.lbs) + 1, opts.Name, opts.VipSubnetID,
                           opts.FlavorID)
    IN  [lb    |-> lb,
         lbs   |-> Append(c.lbs, lb),
         ports |-> [p \in DOMAIN c.ports \cup {lb.VipPortID} |->
                       IF p = lb.VipPortID THEN portSGs ELSE c.ports[p]]]

\* Which remote calls fail in one operation.
Failures ==
    [list : BOOLEAN, extract : BOOLEAN, getSubnet : BOOLEAN,
     listSG : BOOLEAN, listSubnets : BOOLEAN, create : BOOLEAN,
     getPort : BOOLEAN, update : BOOLEAN]

---------------------------------------------------------------------------
(* The task: type LB.                                                      *)

\* An LB with every pointer nil.
EmptyLB ==
    [ID |-> Nil, Name |-> Nil, Subnet |-> Nil, VipSubnet |-> Nil,
     Lifecycle |-> "", PortID |-> Nil, SecurityGroup |-> Nil,
     Provider |-> Nil, FlavorID |-> Nil]

\* A SecurityGroup task, as far as LB reads it.
SecurityGroup(id, name) == [ID |-> PtrTo(id), Name |-> PtrTo(name)]

ErrListLB == "Failed to retrieve loadbalancers for name"

ErrExtractLB == "Failed to extract loadbalancers"

ErrMultipleLB == "Multiple load balancers for name"

ErrGetSubnet == "subnets.Get failed"

ErrSecurityGroup == "security group lookup failed"

ErrRequiredName == "RequiredField Name"

ErrChangeID == "CannotChangeField ID"

ErrChangeName == "CannotChangeField Name"

ErrListSubnets == "Failed to retrieve subnet in loadbalancer creation"

ErrSubnetCount == "Unexpected desired subnets"

ErrCreateLB == "error creating LB"

ErrUpdatePort == "Failed to update security group for port"

ErrGetPort == "Failed to get port with id"

\* getSecurityGroupByName: exactly one security group of that name, else
\* the lookup fails.
getSecurityGroupByName(c, name, f) ==
    LET gs == ByName(c.secgroups, name) IN
    IF ~f.listSG THEN [sg |-> Nil, err |-> ErrSecurityGroup]
    ELSE IF Len(gs) # 1 THEN [sg |-> Nil, err |-> ErrSecurityGroup]
    ELSE [sg |-> PtrTo(SecurityGroup(gs[1].ID, gs[1].Name)), err |-> NoErr]

\* Mutant: the security group is resolved only for a receiver that has one.
WantsSecGroup_DefaultFalse(find) == find # Nil /\ find[1].SecurityGroup # Nil

\* Whether NewLBTaskFromCloud resolves the security group.
WantsSecGroup(find) == ~(find # Nil /\ find[1].SecurityGroup = Nil)

\* Mutant: the virtual-IP subnet is not written back.
BackPropagate_NoVipSubnet(find, actual) ==
    IF find = Nil THEN find
    ELSE PtrTo([find[1] EXCEPT !.ID = actual.ID,
                               !.PortID = actual.PortID,
                               !.Provider = actual.Provider,
                               !.FlavorID = actual.FlavorID])

\* The remote-assigned fields written back onto the find receiver.
BackPropagate(find, actual) ==
    IF find = Nil THEN find
    ELSE PtrTo([find[1] EXCEPT !.ID = actual.ID,
                               !.PortID = actual.PortID,
                               !.VipSubnet = actual.VipSubnet,
                               !.Provider = actual.Provider,
                               !.FlavorID = actual.FlavorID])

\* NewLBTaskFromCloud(cloud, lifecycle, lb, find): the actual task, the
\* error, the receiver as it is left, the remote calls issued and whether
\* the security-group lookup was among them.
NewLBTaskFromCloud(c, lifecycle, lb, find, f) ==
    LET subs == SubnetsWithID(c, lb.VipSubnetID)
        secGroup == WantsSecGroup(find)
        actual == [EmptyLB EXCEPT !.ID = PtrTo(lb.ID),
                                  !.Name = PtrTo(lb.Name),
                                  !.Lifecycle = lifecycle,
                                  !.PortID = PtrTo(lb.VipPortID),
                                  !.Subnet = PtrTo(subs[1].Name),
                                  !.VipSubnet = PtrTo(lb.VipSubnetID),
                                  !.Provider = PtrTo(lb.Provider),
                                  !.FlavorID = PtrTo(lb.FlavorID)]
        g == getSecurityGroupByName(c, lb.Name, f)
    IN  IF ~f.getSubnet \/ Len(subs) = 0
        THEN [actual |-> Nil, err |-> ErrGetSubnet, find |-> find, calls |-> 1,
              lookup |-> FALSE]
        ELSE IF secGroup /\ g.err # NoErr
        THEN [actual |-> Nil, err |-> g.err, find |-> find, calls |-> 2,
              lookup |-> TRUE]
        ELSE LET act == IF secGroup
                        THEN [actual EXCEPT !.SecurityGroup = g.sg]
                        ELSE actual
             IN  [actual |-> PtrTo(act), err |-> NoErr,
                  find |-> BackPropagate(find, act),
                  calls |-> IF secGroup THEN 2 ELSE 1, lookup |-> secGroup]

\* Mutant: two matches are let through.
Ambiguous_OffByOne(n) == n > 2

\* Whether the listing is ambiguous.
Ambiguous(n) == n > 1

\* Mutant: the unset name is searched for.
NameUnset_Never(s) == FALSE

\* Find's first test: nothing to search for.
NameUnset(s) == s.Name = Nil

\* LB.Find: the actual task (nil: absent), the error, the receiver as it is
\* left, the remote calls issued, the number of load balancers listed and
\* whether a security-group lookup was issued.
Find(s, c, f) ==
    LET found == ByName(c.lbs, ValueOf(s.Name)) IN
    IF NameUnset(s)
    THEN [actual |-> Nil, err |-> NoErr, s |-> s, calls |-> 0, matches |-> -1,
          lookup |-> FALSE]
    ELSE IF ~f.list
    THEN [actual |-> Nil, err |-> ErrListLB, s |-> s, calls |-> 1, matches |-> -1,
          lookup |-> FALSE]
    ELSE IF ~f.extract
    THEN [actual |-> Nil, err |-> ErrExtractLB, s |-> s, calls |-> 1, matches |-> -1,
          lookup |-> FALSE]
    ELSE IF Len(found) = 0
    THEN [actual |-> Nil, err |-> NoErr, s |-> s, calls |-> 1, matches |-> 0,
          lookup |-> FALSE]
    ELSE IF Ambiguous(Len(found))
    THEN [actual |-> Nil, err |-> ErrMultipleLB, s |-> s, calls |-> 1,
          matches |-> Len(found), lookup |-> FALSE]
    ELSE LET r == NewLBTaskFromCloud(c, s.Lifecycle, found[1], PtrTo(s), f)
         IN  [actual |-> r.actual, err |-> r.err, s |-> r.find[1],
              calls |-> 1 + r.calls, matches |-> Len(found),
              lookup |-> r.lookup]

\* Mutant: a changed ID is not rejected.
CheckChanges_NoIDCheck(act, exp, chg) ==
    IF act = Nil
    THEN IF exp.Name = Nil THEN ErrRequiredName ELSE NoErr
    ELSE IF chg.Name # Nil THEN ErrChangeName
    ELSE NoErr

\* Mutant: the immutable fields are checked in the creation case too.
CheckChanges_ImmutableOnCreate(act, exp, chg) ==
    IF chg.ID # Nil THEN ErrChangeID
    ELSE IF chg.Name # Nil THEN ErrChangeName
    ELSE IF act = Nil /\ exp.Name = Nil THEN ErrRequiredName
    ELSE NoErr

\* LB.CheckChanges(a, e, changes).
CheckChanges(act, exp, chg) ==
    IF act = Nil
    THEN IF exp.Name = Nil THEN ErrRequiredName ELSE NoErr
    ELSE IF chg.ID # Nil THEN ErrChangeID
    ELSE IF chg.Name # Nil THEN ErrChangeName
    ELSE NoErr

\* fi.ValueOf(e.SecurityGroup.ID).
SecurityGroupID(exp) == ValueOf(exp.SecurityGroup[1].ID)

\* Mutant: the port is updated whenever a security group is wanted.
NeedsPortUpdate_Always(exp, sgs) == exp.SecurityGroup # Nil

\* Mutant: only an empty list is repaired.
NeedsPortUpdate_EmptyOnly(exp, sgs) ==
    /\ exp.SecurityGroup # Nil
    /\ Len(sgs) < 1

\* Mutant: any list other than the desired group alone is repaired.
NeedsPortUpdate_AnyDifference(exp, sgs) ==
    /\ exp.SecurityGroup # Nil
    /\ sgs # <<SecurityGroupID(exp)>>

\* The repair path's test: a security group is wanted and the port's list
\* is empty or does not start with it.
NeedsPortUpdate(exp, sgs) ==
    /\ exp.SecurityGroup # Nil
    /\ (Len(sgs) < 1 \/ sgs[1] # SecurityGroupID(exp))

\* Mutant: the group's name is sent in place of its id.
UpdateOptsSecurityGroups_Name(exp) == <<ValueOf(exp.SecurityGroup[1].Name)>>

\* The UpdateOpts.SecurityGroups both paths send.
UpdateOptsSecurityGroups(exp) == <<SecurityGroupID(exp)>>

\* The CreateOpts of the creation path.
CreateOpts(exp, subnetID) ==
    [Name |-> ValueOf(exp.Name), VipSubnetID |-> subnetID,
     FlavorID |-> IF exp.FlavorID # Nil THEN ValueOf(exp.FlavorID) ELSE ""]

\* Mutant: the port id is not written back.
Populate_NoPortID(exp, lb) ==
    [exp EXCEPT !.ID = PtrTo(lb.ID),
                !.VipSubnet = PtrTo(lb.VipSubnetID),
                !.Provider = PtrTo(lb.Provider),
                !.FlavorID = PtrTo(lb.FlavorID)]

\* The desired task after a successful CreateLB.
Populate(exp, lb) ==
    [exp EXCEPT !.ID = PtrTo(lb.ID), !.PortID = PtrTo(lb.VipPortID),
                !.VipSubnet = PtrTo(lb.VipSubnetID),
                !.Provider = PtrTo(lb.Provider),
                !.FlavorID = PtrTo(lb.FlavorID)]

\* Mutant: the creation path never attaches the security group.
WantsSecurityGroup_Never(exp) == FALSE

\* The creation path's test before the port update: a group is desired.
WantsSecurityGroup(exp) == exp.SecurityGroup # Nil

\* Mutant: several subnets of the name are let through, the first is used.
SubnetCountWrong_ZeroOnly(n) == n = 0

\* The creation path's test of the subnet listing: not exactly one.
SubnetCountWrong(n) == n # 1

\* What a Render that issued nothing returns.
RenderResult(c, exp, err, path, calls) ==
    [err |-> err, e |-> exp, lbs |-> c.lbs, ports |-> c.ports, path |-> path,
     calls |-> calls, creates |-> 0, updates |-> 0, updArg |-> Nil,
     subnetsFound |-> -1]

\* The creation path of RenderOpenstack (a == nil).
RenderCreate(c, exp, f, portSGs) ==
    LET subs == ByName(c.subnets, ValueOf(exp.Subnet)) IN
    IF ~f.listSubnets THEN RenderResult(c, exp, ErrListSubnets, "create", 1)
    ELSE IF SubnetCountWrong(Len(subs))
    THEN [RenderResult(c, exp, ErrSubnetCount, "create", 1)
             EXCEPT !.subnetsFound = Len(subs)]
    ELSE IF ~f.create \/ Len(c.lbs) >= MaxLBs
    THEN [RenderResult(c, exp, ErrCreateLB, "create", 2)
             EXCEPT !.creates = 1, !.subnetsFound = Len(subs)]
    ELSE LET cr == CreateLB(c, CreateOpts(exp, subs[1].ID), portSGs)
             e2 == Populate(exp, cr.lb)
             made == [RenderResult(c, e2, NoErr, "create", 2)
                         EXCEPT !.creates = 1, !.lbs = cr.lbs, !.ports = cr.ports,
                                !.subnetsFound = Len(subs)]
         IN  IF ~WantsSecurityGroup(exp) THEN made
             ELSE IF ~f.update
             THEN [made EXCEPT !.err = ErrUpdatePort, !.calls = 3, !.updates = 1,
                               !.updArg = PtrTo(UpdateOptsSecurityGroups(exp))]
             ELSE [made EXCEPT !.calls = 3, !.updates = 1,
                               !.updArg = PtrTo(UpdateOptsSecurityGroups(exp)),
                               !.ports = UpdatePort(cr.ports, cr.lb.VipPortID,
                                             UpdateOptsSecurityGroups(exp))]

\* The repair path of RenderOpenstack (a != nil).
RenderRepair(c, act, exp, f) ==
    LET id == ValueOf(act[1].PortID) IN
    IF ~f.getPort \/ id \notin DOMAIN c.ports
    THEN RenderResult(c, exp, ErrGetPort, "repair", 1)
    ELSE IF NeedsPortUpdate(exp, c.ports[id])
    THEN IF ~f.update
         THEN [RenderResult(c, exp, ErrUpdatePort, "repair", 2)
                  EXCEPT !.updates = 1,
                         !.updArg = PtrTo(UpdateOptsSecurityGroups(exp))]
         ELSE [RenderResult(c, exp, NoErr, "repair", 2)
                  EXCEPT !.updates = 1,
                         !.updArg = PtrTo(UpdateOptsSecurityGroups(exp)),
                         !.ports = UpdatePort(c.ports, id,
                                       UpdateOptsSecurityGroups(exp))]
    ELSE RenderResult(c, exp, NoErr, "repair", 1)

\* LB.RenderOpenstack(t, a, e, changes); changes is not read.
\* Mutant: the creation path is taken whether or not actual is present.
RenderOpenstack_AlwaysCreate(c, act, exp, f, portSGs) ==
    RenderCreate(c, exp, f, portSGs)

RenderOpenstack(c, act, exp, f, portSGs) ==
    IF act = Nil THEN RenderCreate(c, exp, f, portSGs)
    ELSE RenderRepair(c, act, exp, f)

---------------------------------------------------------------------------
(* One unit's reconciliation passes against the remote system.             *)

Cloud == [lbs |-> lbs, ports |-> ports, subnets |-> subnets,
          secgroups |-> secgroups]

\* The failure choices in which only the calls named in `may` can fail.
Fails(may) == {f \in Failures : \A k \in DOMAIN f : k \notin may => f[k]}

\* The deltas the diff engine may hand in.
Deltas ==
    {[EmptyLB EXCEPT !.ID = i, !.Name = n, !.Subnet = sn] :
        i \in {Nil, PtrTo("lb-9")}, n \in {Nil, PtrTo("lb1-renamed")},
        sn \in {Nil, PtrTo("subnet-b")}}

\* The record of an operation that has not run.
NoOp ==
    [op |-> "none", err |-> NoErr, calls |-> 0, creates |-> 0, updates |-> 0,
     updArg |-> Nil, matches |-> -1, path |-> "", portAfter |-> Nil,
     prev |-> "none", eChanged |-> FALSE, subnetsFound |-> -1,
     sgLookup |-> FALSE, sgSet |-> FALSE]

\* The pass goes on after Find and after CheckChanges only without error.
AfterFind(err) == IF err # NoErr THEN "done" ELSE "check"

AfterCheck(err) == IF err # NoErr THEN "done" ELSE "render"

\* How a Render call ended, for the Render that follows it.
Outcome(r) ==
    IF r.err = NoErr THEN "ok"
    ELSE IF r.path = "create" /\ r.err = ErrUpdatePort THEN "createdUpdateFailed"
    ELSE "failed"

\* The virtual-IP port a Render call is about: the created load balancer's,
\* or the actual one's.
VipPort(act, r) == IF act = Nil THEN r.e.PortID ELSE act[1].PortID

\* Whether a returned task carries a security group.
HasSecurityGroup(act) == act # Nil /\ act[1].SecurityGroup # Nil

DoFind ==
    /\ pc = "find"
    /\ \E f \in Fails({"list", "extract", "getSubnet", "listSG"}) :
          LET r == Find(e, Cloud, f) IN
          /\ e' = r.s
          /\ a' = r.actual
          /\ last' = [NoOp EXCEPT !.op = "Find", !.err = r.err,
                                  !.calls = r.calls, !.matches = r.matches,
                                  !.eChanged = (r.s # e),
                                  !.sgLookup = r.lookup,
                                  !.sgSet = HasSecurityGroup(r.actual)]
          /\ pc' = AfterFind(r.err)
    /\ UNCHANGED <<changes, prev, cloudVars, pollVars>>

DoCheckChanges ==
    /\ pc = "check"
    /\ \E chg \in Deltas :
          LET err == CheckChanges(a, e, chg) IN
          /\ changes' = chg
          /\ last' = [NoOp EXCEPT !.op = "CheckChanges", !.err = err,
                                  !.matches = last.matches]
          /\ pc' = AfterCheck(err)
    /\ UNCHANGED <<e, a, prev, cloudVars, pollVars>>

DoRender ==
    /\ pc = "render"
    /\ \E f \in Fails({"listSubnets", "create", "getPort", "update"}),
          portSGs \in NewPortLists :
          LET r == RenderOpenstack(Cloud, a, e, f, portSGs)
              vip == VipPort(a, r)
          IN
          /\ e' = r.e
          /\ lbs' = r.lbs
          /\ ports' = r.ports
          /\ last' = [NoOp EXCEPT
                        !.op = "Render", !.err = r.err, !.calls = r.calls,
                        !.creates = r.creates, !.updates = r.updates,
                        !.updArg = r.updArg, !.matches = last.matches,
                        !.path = r.path,
                        !.portAfter = IF vip # Nil /\ ValueOf(vip) \in DOMAIN r.ports
                                      THEN PtrTo(r.ports[ValueOf(vip)]) ELSE Nil,
                        !.prev = prev, !.eChanged = (r.e # e),
                        !.subnetsFound = r.subnetsFound]
          /\ prev' = Outcome(r)
    /\ pc' = "done"
    /\ UNCHANGED <<a, changes, subnets, secgroups, pollVars>>

\* The scheduler runs the unit again.
NewPass ==
    /\ pc = "done"
    /\ pc' = "find"
    /\ a' = Nil
    /\ changes' = EmptyLB
    /\ last' = NoOp
    /\ UNCHANGED <<e, prev, cloudVars, pollVars>>

\* Another actor replaces the security groups of a port, between two passes
\* (no other actor touches the resource while a pass runs).
DriftPort ==
    /\ pc = "done"
    /\ \E p \in DOMAIN ports, l \in DriftLists :
          /\ l # ports[p]
          /\ ports' = UpdatePort(ports, p, l)
    /\ prev' = "none"
    /\ UNCHANGED <<lbs, subnets, secgroups, e, a, changes, pc, last, pollVars>>

\* Between two passes a caller that holds no desired task (a listing of the
\* remote resources) rebuilds the task of a load balancer with
\* NewLBTaskFromCloud and no find receiver.
DoFromCloud ==
    /\ pc = "done"
    /\ \E i \in 1..Len(lbs), f \in Fails({"getSubnet", "listSG"}) :
          LET r == NewLBTaskFromCloud(Cloud, e.Lifecycle, lbs[i], Nil, f) IN
          last' = [NoOp EXCEPT !.op = "FromCloud", !.err = r.err,
                               !.calls = r.calls, !.sgLookup = r.lookup,
                               !.sgSet = HasSecurityGroup(r.actual)]
    /\ UNCHANGED <<e, a, changes, pc, prev, cloudVars, pollVars>>

\* The remote states and desired tasks a first pass may meet.
Subnet1 == [ID |-> "subnet-1", Name |-> "subnet-a"]

Subnet2 == [ID |-> "subnet-2", Name |-> "subnet-a"]

SubnetConfigs == {<<>>, <<Subnet1>>, <<Subnet1, Subnet2>>}

SecGroupConfigs ==
    {<<>>, <<[ID |-> "sg-1", Name |-> "lb1"]>>,
     <<[ID |-> "sg-1", Name |-> "lb1"], [ID |-> "sg-2", Name |-> "lb1"]>>}

LBConfigs ==
    {<<>>,
     <<LoadBalancer(1, "lb1", "subnet-1", "")>>,
     <<LoadBalancer(1, "lb1", "subnet-1", ""), LoadBalancer(2, "lb1", "subnet-1", "")>>,
     <<LoadBalancer(1, "other", "subnet-1", "")>>}

DesiredTasks ==
    {[EmptyLB EXCEPT !.Name = n, !.Subnet = PtrTo("subnet-a"),
                     !.Lifecycle = "Sync", !.SecurityGroup = sg, !.FlavorID = fl] :
        n \in {Nil, PtrTo("lb1")},
        sg \in {Nil, PtrTo(SecurityGroup("sg-1", "lb1"))},
        fl \in {Nil, PtrTo("flavor-1")}}

PollIdle ==
    /\ script = [k |-> 1, kind |-> activeStatus]
    /\ pollPc = "idle"
    /\ steps = loadbalancerActiveSteps
    /\ duration = loadbalancerActiveInitDelay
    /\ fetches = 0
    /\ sleeps = 0
    /\ slept = 0
    /\ provisioningStatus = ""
    /\ pollErr = NoErr

TaskInit ==
    /\ lbs \in LBConfigs
    /\ ports = [p \in {lbs[i].VipPortID : i \in 1..Len(lbs)} |-> <<"sg-default">>]
    /\ subnets \in SubnetConfigs
    /\ lbs # <<>> => subnets # <<>>
    /\ secgroups \in SecGroupConfigs
    /\ e \in DesiredTasks
    /\ a = Nil
    /\ changes = EmptyLB
    /\ pc = "find"
    /\ last = NoOp
    /\ prev = "none"

TaskIdle ==
    /\ lbs = <<>>
    /\ ports = << >>
    /\ subnets = <<>>
    /\ secgroups = <<>>
    /\ e = EmptyLB
    /\ a = Nil
    /\ changes = EmptyLB
    /\ pc = "idle"
    /\ last = NoOp
    /\ prev = "none"

Init == TaskInit /\ PollIdle

Next == DoFind \/ DoCheckChanges \/ DoRender \/ NewPass \/ DriftPort

Spec == Init /\ [][Next]_vars

\* The passes of a unit whose name at most one load balancer has at the
\* start; no action but Render's CreateLB adds a load balancer.
SoloInit == Init /\ Len(ByName(lbs, "lb1")) <= 1

SoloSpec == SoloInit /\ [][Next]_vars

\* The passes together with the callers that have no desired task.
DiscoveryNext ==
    DoFind \/ DoCheckChanges \/ DoRender \/ NewPass \/ DriftPort \/ DoFromCloud

DiscoverySpec == Init /\ [][DiscoveryNext]_vars

PollerInit == TaskIdle /\ PollInit

PollerSpec == PollerInit /\ [][PollNext]_vars /\ WF_vars(PollNext)

---------------------------------------------------------------------------
(* Properties of Render (specification Spec).                              *)

\* A Render call that follows a Render call that returned no error, with no
\* drift in between.
AfterSuccessfulRender == last.op = "Render" /\ last.prev = "ok"

\* C1 as stated: the Render that follows a successful Render with no drift
\* issues no CreateLB and no port update and returns no error.
C1_SecondRenderNoError ==
    AfterSuccessfulRender =>
        /\ last.creates = 0
        /\ last.updates = 0
        /\ last.err = NoErr

\* C1, amended: the Render that follows a successful Render with no drift
\* issues no CreateLB and no port update; it returns no error unless its
\* fetch of the port fails, and then it returns that failure.
C1_SecondRenderNoMutation ==
    AfterSuccessfulRender =>
        /\ last.path = "repair"
        /\ last.creates = 0
        /\ last.updates = 0
        /\ last.err \in {NoErr, ErrGetPort}

C1_Witness ==
    /\ AfterSuccessfulRender
    /\ e.SecurityGroup # Nil
    /\ last.err = NoErr
    /\ last.calls = 1
    /\ last.portAfter = PtrTo(<<"sg-1">>)

\* A repair-path Render that follows a creation-path Render whose CreateLB
\* succeeded and whose port update failed, with no drift in between.
AfterFailedAttach ==
    /\ last.op = "Render"
    /\ last.prev = "createdUpdateFailed"
    /\ last.path = "repair"

\* C2 as stated: after a creation whose port update failed, the next Render
\* with actual present issues one port update carrying exactly the desired
\* group's id, and no CreateLB.
C2_RepairAlwaysUpdates ==
    AfterFailedAttach =>
        /\ last.creates = 0
        /\ last.updates = 1
        /\ last.updArg = PtrTo(<<SecurityGroupID(e)>>)

\* C2, amended: after a creation whose port update failed, the next Render
\* with actual present issues no CreateLB; if its fetch of the port succeeds
\* it issues one port update carrying exactly the desired group's id (and on
\* success the port holds exactly that id); if the fetch fails it issues
\* nothing and returns that failure.
C2_RepairUpdatesIfPortFetched ==
    AfterFailedAttach =>
        /\ e.SecurityGroup # Nil
        /\ last.creates = 0
        /\ IF last.err = ErrGetPort
           THEN last.updates = 0 /\ last.updArg = Nil
           ELSE /\ last.updates = 1
                /\ last.updArg = PtrTo(<<SecurityGroupID(e)>>)
                /\ last.err \in {NoErr, ErrUpdatePort}
                /\ last.err = NoErr =>
                      last.portAfter = PtrTo(<<SecurityGroupID(e)>>)

C2_Witness ==
    /\ AfterFailedAttach
    /\ last.err = NoErr
    /\ last.updates = 1
    /\ last.creates = 0
    /\ last.portAfter = PtrTo(<<"sg-1">>)
    /\ Len(lbs) = 1

\* C3: when a security group is desired and Render returns no error, on
\* return the virtual-IP port's list is not empty and starts with the
\* desired group's id.
C3_PortInvariant ==
    (last.op = "Render" /\ last.err = NoErr /\ e.SecurityGroup # Nil) =>
        /\ last.portAfter # Nil
        /\ Len(last.portAfter[1]) >= 1
        /\ last.portAfter[1][1] = SecurityGroupID(e)

C3_Witness ==
    /\ last.op = "Render"
    /\ last.err = NoErr
    /\ e.SecurityGroup # Nil
    /\ last.path = "create"
    /\ last.updates = 1
    /\ last.portAfter = PtrTo(<<"sg-1">>)

---------------------------------------------------------------------------
(* Properties of Find and CheckChanges (specification Spec).               *)

\* C4: in a pass whose Find listed more than one load balancer, Find
\* returned the ambiguity error and no descriptor, and nothing ran after it:
\* no CheckChanges, no Render, no CreateLB, no port update.
C4_Ambiguity ==
    last.matches > 1 =>
        /\ last.op = "Find"
        /\ last.err = ErrMultipleLB
        /\ a = Nil
        /\ pc = "done"
        /\ last.creates = 0
        /\ last.updates = 0

C4_Witness ==
    /\ last.matches = 2
    /\ last.op = "Find"
    /\ last.err = ErrMultipleLB
    /\ pc = "done"

\* C5: with actual present, CheckChanges fails exactly when the delta has an
\* ID or a Name, whatever else actual, desired and delta hold.
C5_Immutability ==
    (last.op = "CheckChanges" /\ a # Nil) =>
        (last.err # NoErr <=> (changes.ID # Nil \/ changes.Name # Nil))

C5_Witness ==
    /\ last.op = "CheckChanges"
    /\ a # Nil
    /\ changes.ID # Nil
    /\ changes.Name = Nil
    /\ changes.Subnet # Nil
    /\ last.err = ErrChangeID

\* C6: Find on a task without a name returns absent and no error, issues no
\* remote call and leaves the task as it was.
C6_UnsetIdentity ==
    (last.op = "Find" /\ e.Name = Nil) =>
        /\ a = Nil
        /\ last.err = NoErr
        /\ last.calls = 0
        /\ ~last.eChanged
        /\ e.ID = Nil

C6_Witness ==
    /\ last.op = "Find"
    /\ e.Name = Nil
    /\ a = Nil
    /\ last.calls = 0
    /\ lbs # <<>>

---------------------------------------------------------------------------
(* Properties of the poller (specification PollerSpec).                    *)

PollDone == pollPc = "done"

\* C7: when answers 1..k-1 are in progress and answer k <= 22 is ACTIVE,
\* the poller returns no error and ACTIVE after exactly k fetches.
C7_PollerSuccess ==
    (PollDone /\ script.kind = activeStatus /\ script.k <= loadbalancerActiveSteps) =>
        /\ pollErr = NoErr
        /\ provisioningStatus = activeStatus
        /\ fetches = script.k

C7_Witness ==
    /\ PollDone
    /\ script = [k |-> loadbalancerActiveSteps, kind |-> activeStatus]
    /\ fetches = loadbalancerActiveSteps
    /\ pollErr = NoErr
    /\ provisioningStatus = activeStatus

\* C8: once a fetch has returned ERROR the poller has stopped, at that
\* fetch, with the ERROR-state error, which is neither the timeout error nor
\* a transport error.
C8_ErrorStatus ==
    provisioningStatus = errorStatus =>
        /\ PollDone
        /\ fetches = script.k
        /\ pollErr = ErrErrorState
        /\ pollErr \notin {NoErr, ErrTimeout, ErrWaitTimeout, ErrTransport}

C8_Witness ==
    /\ provisioningStatus = errorStatus
    /\ PollDone
    /\ fetches = 2
    /\ steps > 1
    /\ pollErr = ErrErrorState

\* C9: the poller never fetches more than 22 times and always returns; when
\* 22 fetches all return a status in progress it returns the timeout error,
\* which differs from the transport error and from the ERROR-state error.
C9_PollerTermination ==
    /\ [](fetches <= loadbalancerActiveSteps)
    /\ []((PollDone /\ script.k > loadbalancerActiveSteps) =>
            /\ fetches = loadbalancerActiveSteps
            /\ pollErr = ErrTimeout
            /\ pollErr \notin {NoErr, ErrTransport, ErrErrorState})
    /\ <>PollDone

C9_Witness ==
    /\ PollDone
    /\ script.k > loadbalancerActiveSteps
    /\ fetches = loadbalancerActiveSteps
    /\ pollErr = ErrTimeout
    /\ provisioningStatus \in InProgressStatuses

\* C10: when a fetch fails, the poller stops at that fetch and returns the
\* fetch's own error.
C10_TransportFailure ==
    (PollDone /\ script.kind = "fail" /\ script.k <= loadbalancerActiveSteps) =>
        /\ fetches = script.k
        /\ pollErr = ErrTransport
        /\ pollErr \notin {NoErr, ErrTimeout, ErrWaitTimeout, ErrErrorState}

C10_Witness ==
    /\ PollDone
    /\ script = [k |-> 3, kind |-> "fail"]
    /\ fetches = 3
    /\ steps > 1
    /\ pollErr = ErrTransport
    /\ provisioningStatus \in InProgressStatuses

---------------------------------------------------------------------------
(* Further properties of Render (specification Spec).                      *)

\* The remote security groups bearing the desired group's name.
RemoteGroupsOfDesired == ByName(secgroups, ValueOf(e.SecurityGroup[1].Name))

\* A Render call made while the remote does not hold exactly one security
\* group of the desired group's name.
RenderWithUnresolvableGroup ==
    /\ last.op = "Render"
    /\ e.SecurityGroup # Nil
    /\ Len(RemoteGroupsOfDesired) # 1

CreateWithoutSubnet ==
    /\ last.op = "Render"
    /\ last.path = "create"
    /\ \/ last.err = ErrListSubnets
       \/ Len(ByName(subnets, ValueOf(e.Subnet))) # 1

\* C12: with actual absent, when the subnet listing fails or returns zero or
\* several subnets, Render returns an error, issues no CreateLB and no port
\* update, and leaves the desired task and the remote as they were.
C12_SubnetPrecondition ==
    CreateWithoutSubnet =>
        /\ last.err \in {ErrListSubnets, ErrSubnetCount}
        /\ last.err = ErrSubnetCount <=> last.subnetsFound # -1
        /\ last.creates = 0
        /\ last.updates = 0
        /\ last.calls = 1
        /\ ~last.eChanged

C12_Witness ==
    /\ CreateWithoutSubnet
    /\ last.err = ErrSubnetCount
    /\ last.subnetsFound = 2
    /\ last.creates = 0
    /\ e.SecurityGroup # Nil

\* A creation-path Render whose CreateLB succeeded.
CreatedLB ==
    /\ last.op = "Render"
    /\ last.path = "create"
    /\ last.creates = 1
    /\ last.err \in {NoErr, ErrUpdatePort}

\* C13: when the creation path's CreateLB succeeded, on return the desired
\* task's ID, PortID, VipSubnet, Provider and FlavorID are the created
\* record's, also when the port update failed.
C13_CreationPopulatesDesired ==
    CreatedLB =>
        LET lb == lbs[Len(lbs)] IN
        /\ lb.Name = ValueOf(e.Name)
        /\ e.ID = PtrTo(lb.ID)
        /\ e.PortID = PtrTo(lb.VipPortID)
        /\ e.VipSubnet = PtrTo(lb.VipSubnetID)
        /\ e.Provider = PtrTo(lb.Provider)
        /\ e.FlavorID = PtrTo(lb.FlavorID)

C13_Witness ==
    /\ CreatedLB
    /\ last.err = ErrUpdatePort
    /\ e.ID = PtrTo("lb-1")
    /\ e.PortID = PtrTo("port-1")
    /\ e.FlavorID = PtrTo("")

---------------------------------------------------------------------------
(* Further properties of CheckChanges and Find (specification Spec).       *)

\* C15: with actual absent, CheckChanges returns the required-field error
\* exactly when the desired task has no name, whatever else the desired
\* task and the delta hold; it returns no other error.
C15_CreationValidation ==
    (last.op = "CheckChanges" /\ a = Nil) =>
        /\ last.err = ErrRequiredName <=> e.Name = Nil
        /\ last.err \in {NoErr, ErrRequiredName}

C15_Witness ==
    /\ last.op = "CheckChanges"
    /\ a = Nil
    /\ e.Name # Nil
    /\ changes.ID # Nil
    /\ changes.Name # Nil
    /\ last.err = NoErr

\* C17: a Find that returns a task leaves the receiver's ID, PortID,
\* VipSubnet, Provider and FlavorID equal to the returned task's and its
\* Name, Subnet, SecurityGroup and Lifecycle as they were; a Find that
\* returns no task, with or without an error, leaves the receiver as it was.
C17_FindEffectOnReceiver ==
    [][pc = "find" =>
          IF a' # Nil
          THEN /\ last'.err = NoErr
               /\ e'.ID = a'[1].ID
               /\ e'.PortID = a'[1].PortID
               /\ e'.VipSubnet = a'[1].VipSubnet
               /\ e'.Provider = a'[1].Provider
               /\ e'.FlavorID = a'[1].FlavorID
               /\ e'.Name = e.Name
               /\ e'.Subnet = e.Subnet
               /\ e'.SecurityGroup = e.SecurityGroup
               /\ e'.Lifecycle = e.Lifecycle
          ELSE e' = e]_vars

C17_Witness ==
    /\ last.op = "Find"
    /\ a # Nil
    /\ last.eChanged
    /\ e.ID = a[1].ID
    /\ e.VipSubnet = PtrTo("subnet-1")
    /\ e.SecurityGroup # Nil

---------------------------------------------------------------------------
(* Discovery (specification DiscoverySpec).                                *)

\* A task was rebuilt from a matched load balancer.
Rebuilt == last.op = "FromCloud" \/ (last.op = "Find" /\ last.matches = 1)

\* The caller handed in a desired task that has a security group.
CallerWantsGroup == last.op = "Find" /\ e.SecurityGroup # Nil

\* C16 as stated: when a task is rebuilt from a matched load balancer, with
\* or without a find receiver, the security-group lookup is issued and the
\* actual task's group is set only when the caller's desired task has a
\* security group.
C16_LookupOnlyOnInterest ==
    Rebuilt => ((last.sgLookup \/ last.sgSet) => CallerWantsGroup)

\* C16: once the subnet lookup has succeeded, a rebuild with a find receiver
\* issues the security-group lookup exactly when the receiver has a security
\* group, a rebuild without a receiver always issues it, and the actual
\* task's group is set only when the lookup was issued.
C16_LookupUnlessReceiverWithoutGroup ==
    Rebuilt =>
        /\ last.sgSet => last.sgLookup
        /\ last.err = ErrGetSubnet => ~last.sgLookup
        /\ (last.op = "Find" /\ last.err # ErrGetSubnet) =>
              (last.sgLookup <=> e.SecurityGroup # Nil)
        /\ (last.op = "FromCloud" /\ last.err # ErrGetSubnet) => last.sgLookup

C16_Witness ==
    /\ last.op = "FromCloud"
    /\ last.err = NoErr
    /\ last.sgLookup
    /\ last.sgSet
    /\ e.SecurityGroup = Nil

---------------------------------------------------------------------------
(* The port after a repair (specification Spec) and the poller's wait      *)
(* (specification PollerSpec).                                             *)

\* C18: after a Render that succeeds on an existing load balancer with a
\* security group desired, the port has exactly one security group and it
\* is the desired one, whatever list the port had before.
C18_SingleGroupAfterRepair ==
    (/\ last.op = "Render"
     /\ last.path = "repair"
     /\ last.err = NoErr
     /\ e.SecurityGroup # Nil)
        => last.portAfter = PtrTo(<<SecurityGroupID(e)>>)

\* C19: a poller run that exhausts its budget has fetched 22 times, slept
\* between consecutive fetches, and slept in total between 5 and 6 minutes
\* (about 326 s) when it returns the timeout error.
C19_WaitBudget ==
    (PollDone /\ pollErr = ErrTimeout) =>
        /\ fetches = loadbalancerActiveSteps
        /\ sleeps = loadbalancerActiveSteps - 1
        /\ slept >= 5 * 60 * 1000
        /\ slept <= 6 * 60 * 1000

---------------------------------------------------------------------------
(* Re-invocation (specification SoloSpec).                                 *)

\* C20: when no other actor creates load balancers, over any sequence of
\* passes in which any remote call may fail, CreateLB is issued only in a
\* pass whose Find listed no load balancer of the name, and the remote
\* never holds more than one load balancer of the name.
C20_NoDuplicateCreation ==
    /\ Len(ByName(lbs, "lb1")) <= 1
    /\ (last.op = "Render" /\ last.creates > 0) => last.matches = 0
    /\ (pc = "render" /\ a = Nil) => last.matches = 0

C20_Witness ==
    /\ last.op = "Render"
    /\ last.prev = "createdUpdateFailed"
    /\ last.matches = 1
    /\ last.creates = 0
    /\ Len(ByName(lbs, "lb1")) = 1

===========================================================================
